---- MODULE Spec2Model ----
(***************************************************************************)
(* A model of the GLSL language-server session of src/main.cpp: the        *)
(* transport callback ev_handler, the dispatcher handle_message, the       *)
(* diagnostic translator get_diagnostics and the response encoder          *)
(* make_response.                                                          *)
(*                                                                         *)
(* Byte strings (std::string) are TLA+ strings, one character per byte.    *)
(* JSON documents (nlohmann::json) are records                             *)
(*     [t |-> tag, s |-> string, n |-> integer, c |-> members]             *)
(* with tag one of "null", "bool", "num", "str", "arr", "obj"; the members *)
(* of an array or an object are records [k |-> key, v |-> value], an       *)
(* object's members sorted by key as in the std::map nlohmann keeps them   *)
(* in, an array's members with the empty key.                              *)
(*                                                                         *)
(* messagebuffer.hpp, workspace.hpp and utils.hpp are not part of the      *)
(* sources at hand: MessageBuffer, Workspace, split_string and trim are    *)
(* modelled from the specification's description of them.                  *)
(***************************************************************************)
EXTENDS Integers, Sequences, FiniteSets, TLC

\* ------------------------------------------------------------------------
\* Byte strings
\* ------------------------------------------------------------------------

\* The byte of s at position i (1-based), "" outside s.
Ch(s, i) == IF i >= 1 /\ i <= Len(s) THEN SubSeq(s, i, i) ELSE ""

\* The bytes of s from position i to its end.
From(s, i) == SubSeq(s, i, Len(s))

\* Whether s holds p at position i.
StartsAt(s, p, i) == i >= 1 /\ i + Len(p) - 1 <= Len(s) /\ SubSeq(s, i, i + Len(p) - 1) = p

\* std::string::find: the 0-based offset of the first occurrence of p in s
\* at or after the 0-based offset from, -1 (npos) when there is none.
Find(s, p, from) ==
    LET hits == {i \in (from + 1)..(Len(s) - Len(p) + 1) : StartsAt(s, p, i)}
    IN  IF hits = {} THEN -1
        ELSE (CHOOSE i \in hits : \A j \in hits : i <= j) - 1

\* The printable bytes in increasing order of their value (the backquote,
\* which a TLA+ string cannot hold, left out).
ByteOrder == " !\"#$%&'()*+,-./0123456789:;<=>?@ABCDEFGHIJKLMNOPQRSTUVWXYZ[\\]^_abcdefghijklmnopqrstuvwxyz{|}~"

\* The rank of each of these bytes in that order.
ByteRank == [b \in {Ch(ByteOrder, i) : i \in 1..Len(ByteOrder)} |-> Find(ByteOrder, b, 0) + 1]

\* The rank of a byte; the control bytes come before the printable ones.
Ord(b) == IF b \in DOMAIN ByteRank THEN ByteRank[b] ELSE 0

\* std::string's operator<: lexicographic on the bytes.
RECURSIVE StrLess(_, _)
StrLess(a, b) ==
    IF b = "" THEN FALSE
    ELSE IF a = "" THEN TRUE
    ELSE IF Ch(a, 1) = Ch(b, 1) THEN StrLess(From(a, 2), From(b, 2))
    ELSE Ord(Ch(a, 1)) < Ord(Ch(b, 1))

Digits == "0123456789"

IsDigit(b) == b \in {"0", "1", "2", "3", "4", "5", "6", "7", "8", "9"}

DigitVal(b) == Find(Digits, b, 0)

\* std::to_string of an integer.
RECURSIVE NatToStr(_)
NatToStr(n) ==
    IF n < 10 THEN Ch(Digits, n + 1)
    ELSE NatToStr(n \div 10) \o Ch(Digits, (n % 10) + 1)

IntToStr(n) == IF n < 0 THEN "-" \o NatToStr(-n) ELSE NatToStr(n)

\* The value of a string of decimal digits ("" counts 0).
RECURSIVE StrToNat(_)
StrToNat(s) ==
    IF s = "" THEN 0
    ELSE 10 * StrToNat(SubSeq(s, 1, Len(s) - 1)) + DigitVal(Ch(s, Len(s)))

AllDigits(s) == \A i \in 1..Len(s) : IsDigit(Ch(s, i))

\* ------------------------------------------------------------------------
\* JSON documents
\* ------------------------------------------------------------------------

JNull == [t |-> "null", s |-> "", n |-> 0, c |-> <<>>]
JBool(b) == [t |-> "bool", s |-> "", n |-> IF b THEN 1 ELSE 0, c |-> <<>>]
JNum(n) == [t |-> "num", s |-> "", n |-> n, c |-> <<>>]
JStr(s) == [t |-> "str", s |-> s, n |-> 0, c |-> <<>>]
Member(k, v) == [k |-> k, v |-> v]

\* The members ms of an object with the member (k, v) put in key order.  An
\* existing member of that key is replaced when overwrite holds and kept
\* otherwise.
RECURSIVE Insert(_, _, _, _)
Insert(ms, k, v, overwrite) ==
    IF ms = <<>> THEN <<Member(k, v)>>
    ELSE IF ms[1].k = k
         THEN IF overwrite THEN <<Member(k, v)>> \o Tail(ms) ELSE ms
    ELSE IF StrLess(k, ms[1].k) THEN <<Member(k, v)>> \o ms
    ELSE <<ms[1]>> \o Insert(Tail(ms), k, v, overwrite)

RECURSIVE InsertAll(_, _)
InsertAll(ms, pairs) ==
    IF pairs = <<>> THEN ms
    ELSE InsertAll(Insert(ms, pairs[1][1], pairs[1][2], FALSE), Tail(pairs))

\* json{ {k1, v1}, {k2, v2}, ... }: an object from an initializer list.
JObj(pairs) == [t |-> "obj", s |-> "", n |-> 0, c |-> InsertAll(<<>>, pairs)]

\* json::array() and arrays of values.
JArr(vs) == [t |-> "arr", s |-> "", n |-> 0, c |-> [i \in 1..Len(vs) |-> Member("", vs[i])]]

\* object.count(key)
Count(j, k) ==
    IF j.t = "obj" THEN Cardinality({i \in 1..Len(j.c) : j.c[i].k = k}) ELSE 0

\* The value of key k in j; null when j is no object or has no such key.
Get(j, k) ==
    IF Count(j, k) = 1
    THEN j.c[CHOOSE i \in 1..Len(j.c) : j.c[i].k = k].v
    ELSE JNull

\* json::empty(): null, or an array or object with no members.
Empty(j) == j.t = "null" \/ (j.t \in {"arr", "obj"} /\ j.c = <<>>)

\* json::push_back(v): null becomes an array first.
PushBack(j, v) == [t |-> "arr", s |-> "", n |-> 0, c |-> Append(j.c, Member("", v))]

\* ------------------------------------------------------------------------
\* json::dump(4): serialization with an indentation step of four
\* ------------------------------------------------------------------------

IndentStep == 4

Blank == "                                                                "

\* n spaces.
Spaces(n) == SubSeq(Blank, 1, n)

\* A string's bytes as dump writes them between the quotes.
EscapeByte(b) ==
    CASE b = "\"" -> "\\\""
      [] b = "\\" -> "\\\\"
      [] b = "\n" -> "\\n"
      [] b = "\r" -> "\\r"
      [] b = "\t" -> "\\t"
      [] OTHER -> b

RECURSIVE Escape(_)
Escape(s) ==
    LET special == {i \in 1..Len(s) : Ch(s, i) \in {"\"", "\\", "\n", "\r", "\t"}}
        at == CHOOSE i \in special : \A j \in special : i <= j
    IN  IF special = {} THEN s
        ELSE SubSeq(s, 1, at - 1) \o EscapeByte(Ch(s, at)) \o Escape(From(s, at + 1))

Quoted(s) == "\"" \o Escape(s) \o "\""

RECURSIVE DumpAt(_, _, _)
RECURSIVE DumpMembers(_, _, _, _, _)
\* The members ms from the i-th on, each on a line of its own at indentation
\* ind, with its key when keyed holds.
DumpMembers(ms, i, keyed, step, ind) ==
    IF i > Len(ms) THEN ""
    ELSE Spaces(ind)
         \o (IF keyed THEN Quoted(ms[i].k) \o ": " ELSE "")
         \o DumpAt(ms[i].v, step, ind)
         \o (IF i < Len(ms) THEN ",\n" ELSE "\n")
         \o DumpMembers(ms, i + 1, keyed, step, ind)

\* j written at the current indentation cur.
DumpAt(j, step, cur) ==
    CASE j.t = "null" -> "null"
      [] j.t = "bool" -> IF j.n = 1 THEN "true" ELSE "false"
      [] j.t = "num" -> IntToStr(j.n)
      [] j.t = "str" -> Quoted(j.s)
      [] j.t = "arr" ->
            IF j.c = <<>> THEN "[]"
            ELSE "[\n" \o DumpMembers(j.c, 1, FALSE, step, cur + step) \o Spaces(cur) \o "]"
      [] j.t = "obj" ->
            IF j.c = <<>> THEN "{}"
            ELSE "{\n" \o DumpMembers(j.c, 1, TRUE, step, cur + step) \o Spaces(cur) \o "}"

Dump(j) == DumpAt(j, IndentStep, 0)

\* ------------------------------------------------------------------------
\* json::parse, as MessageBuffer::body() applies it to the body bytes
\* ------------------------------------------------------------------------

IsSpace(b) == b \in {" ", "\n", "\r", "\t"}

RECURSIVE SkipSpace(_, _)
SkipSpace(s, i) == IF IsSpace(Ch(s, i)) THEN SkipSpace(s, i + 1) ELSE i

Failed == [ok |-> FALSE, v |-> JNull, i |-> 0]
Parsed(v, i) == [ok |-> TRUE, v |-> v, i |-> i]

\* The first position from i on that holds a quote, a backslash or a control
\* byte, or lies past the end of s.
RECURSIVE PlainEnd(_, _)
PlainEnd(s, i) ==
    LET stops == {j \in i..(i + 15) : Ch(s, j) \in {"", "\"", "\\", "\n", "\r", "\t"}}
    IN  IF stops = {} THEN PlainEnd(s, i + 16)
        ELSE CHOOSE j \in stops : \A k \in stops : j <= k

\* The string whose opening quote precedes position i: its bytes with the
\* escapes undone (in v.s), and the position after its closing quote.
RECURSIVE ParseString(_, _, _)
ParseString(s, i, acc) ==
    LET b == Ch(s, i)
        e == Ch(s, i + 1)
        to == PlainEnd(s, i)
    IN  IF b = "" THEN Failed
        ELSE IF b = "\"" THEN Parsed(JStr(acc), i + 1)
        ELSE IF b = "\\"
             THEN CASE e = "\"" -> ParseString(s, i + 2, acc \o "\"")
                    [] e = "\\" -> ParseString(s, i + 2, acc \o "\\")
                    [] e = "/" -> ParseString(s, i + 2, acc \o "/")
                    [] e = "n" -> ParseString(s, i + 2, acc \o "\n")
                    [] e = "r" -> ParseString(s, i + 2, acc \o "\r")
                    [] e = "t" -> ParseString(s, i + 2, acc \o "\t")
                    [] OTHER -> Failed
        ELSE IF b \in {"\n", "\r", "\t"} THEN Failed
        ELSE ParseString(s, to, acc \o SubSeq(s, i, to - 1))

RECURSIVE DigitsEnd(_, _)
DigitsEnd(s, i) == IF IsDigit(Ch(s, i)) THEN DigitsEnd(s, i + 1) ELSE i

ParseNumber(s, i) ==
    LET neg == Ch(s, i) = "-"
        from == IF neg THEN i + 1 ELSE i
        to == DigitsEnd(s, from)
        n == StrToNat(SubSeq(s, from, to - 1))
    IN  IF to = from \/ (to - from > 1 /\ Ch(s, from) = "0") THEN Failed
        ELSE Parsed(JNum(IF neg THEN -n ELSE n), to)

RECURSIVE ParseValue(_, _)
RECURSIVE ParseMembers(_, _, _)
RECURSIVE ParseElements(_, _, _)

\* The members of an object after its "{" or a ",", ms the ones read so far.
ParseMembers(s, i0, ms) ==
    LET i == SkipSpace(s, i0)
        key == IF Ch(s, i) = "\"" THEN ParseString(s, i + 1, "") ELSE Failed
        colon == SkipSpace(s, key.i)
        val == IF key.ok /\ Ch(s, colon) = ":" THEN ParseValue(s, colon + 1) ELSE Failed
        next == SkipSpace(s, val.i)
        all == Insert(ms, key.v.s, val.v, TRUE)
    IN  IF ~val.ok THEN Failed
        ELSE IF Ch(s, next) = "," THEN ParseMembers(s, next + 1, all)
        ELSE IF Ch(s, next) = "}"
             THEN Parsed([t |-> "obj", s |-> "", n |-> 0, c |-> all], next + 1)
        ELSE Failed

\* The elements of an array after its "[" or a ",", vs the ones read so far.
ParseElements(s, i0, vs) ==
    LET val == ParseValue(s, i0)
        next == SkipSpace(s, val.i)
        all == Append(vs, Member("", val.v))
    IN  IF ~val.ok THEN Failed
        ELSE IF Ch(s, next) = "," THEN ParseElements(s, next + 1, all)
        ELSE IF Ch(s, next) = "]"
             THEN Parsed([t |-> "arr", s |-> "", n |-> 0, c |-> all], next + 1)
        ELSE Failed

ParseValue(s, i0) ==
    LET i == SkipSpace(s, i0)
        b == Ch(s, i)
    IN  CASE b = "{" ->
                IF Ch(s, SkipSpace(s, i + 1)) = "}"
                THEN Parsed([t |-> "obj", s |-> "", n |-> 0, c |-> <<>>], SkipSpace(s, i + 1) + 1)
                ELSE ParseMembers(s, i + 1, <<>>)
          [] b = "[" ->
                IF Ch(s, SkipSpace(s, i + 1)) = "]"
                THEN Parsed([t |-> "arr", s |-> "", n |-> 0, c |-> <<>>], SkipSpace(s, i + 1) + 1)
                ELSE ParseElements(s, i + 1, <<>>)
          [] b = "\"" -> ParseString(s, i + 1, "")
          [] b = "-" \/ IsDigit(b) -> ParseNumber(s, i)
          [] StartsAt(s, "true", i) -> Parsed(JBool(TRUE), i + 4)
          [] StartsAt(s, "false", i) -> Parsed(JBool(FALSE), i + 5)
          [] StartsAt(s, "null", i) -> Parsed(JNull, i + 4)
          [] OTHER -> Failed

\* The document the bytes s hold: ok is FALSE when s is no JSON text.
ParseJson(s) ==
    LET r == ParseValue(s, 1)
    IN  IF r.ok /\ SkipSpace(s, r.i) = Len(s) + 1 THEN r ELSE Failed

\* ------------------------------------------------------------------------
\* utils.hpp
\* ------------------------------------------------------------------------

\* split_string(s, delim): the pieces of s between the occurrences of delim.
RECURSIVE split_string(_, _)
split_string(s, delim) ==
    LET at == Find(s, delim, 0)
    IN  IF at < 0 THEN <<s>>
        ELSE <<SubSeq(s, 1, at)>> \o split_string(From(s, at + Len(delim) + 1), delim)

\* trim(s, b): s without its leading and trailing bytes b.
RECURSIVE trim(_, _)
trim(s, b) ==
    IF s # "" /\ Ch(s, 1) = b THEN trim(From(s, 2), b)
    ELSE IF s # "" /\ Ch(s, Len(s)) = b THEN trim(SubSeq(s, 1, Len(s) - 1), b)
    ELSE s

\* ------------------------------------------------------------------------
\* workspace.hpp: the open documents and the initialization flag
\* ------------------------------------------------------------------------

\* A Workspace as constructed: not initialized, no documents.
NewWorkspace == [initialized |-> FALSE, documents |-> <<>>]

set_initialized(ws, b) == [ws EXCEPT !.initialized = b]

is_initialized(ws) == ws.initialized

\* Inserts or overwrites the document of uri.
add_document(ws, uri, text) ==
    [ws EXCEPT !.documents =
        [u \in (DOMAIN ws.documents) \cup {uri} |->
            IF u = uri THEN text ELSE ws.documents[u]]]

\* Replaces the text of an open document; does nothing for a uri never opened.
change_document(ws, uri, text) ==
    IF uri \in DOMAIN ws.documents
    THEN [ws EXCEPT !.documents[uri] = text]
    ELSE ws

\* documents()[uri] on the snapshot the accessor returns: the text of uri,
\* the empty string for a uri the snapshot does not hold.
DocumentText(ws, uri) ==
    IF uri \in DOMAIN ws.documents THEN ws.documents[uri] ELSE ""

\* ------------------------------------------------------------------------
\* messagebuffer.hpp: the framer
\* ------------------------------------------------------------------------

\* A MessageBuffer as constructed, and after clear(): nothing accumulated.
NewMessageBuffer ==
    [raw |-> "", completed |-> FALSE, unparsable |-> FALSE, headers |-> <<>>, body |-> JNull]

\* The 0-based offset of the blank line that ends the headers (lines end in
\* LF or CR LF), -1 while it has not arrived.
SeparatorAt(raw) ==
    LET lf == Find(raw, "\n\n", 0)
        crlf == Find(raw, "\n\r\n", 0)
    IN  IF lf < 0 THEN crlf
        ELSE IF crlf < 0 THEN lf
        ELSE IF lf < crlf THEN lf ELSE crlf

\* The bytes the blank line takes.
SeparatorLen(raw, at) == IF StartsAt(raw, "\n\n", at + 1) THEN 2 ELSE 3

\* The header lines of the header text, each without its line end.
HeaderLines(text) ==
    LET lines == split_string(text, "\n")
    IN  [i \in 1..Len(lines) |-> trim(lines[i], "\r")]

\* A header line is "name: value".
HeaderWellFormed(line) == Find(line, ": ", 0) > 0

HeaderName(line) == SubSeq(line, 1, Find(line, ": ", 0))

HeaderValue(line) == From(line, Find(line, ": ", 0) + 3)

\* name -> value, the last line of a name deciding.
Headers(lines) ==
    LET good == {i \in 1..Len(lines) : HeaderWellFormed(lines[i])}
    IN  [nm \in {HeaderName(lines[i]) : i \in good} |->
            HeaderValue(lines[CHOOSE i \in good :
                /\ HeaderName(lines[i]) = nm
                /\ \A j \in good : HeaderName(lines[j]) = nm => j <= i])]

\* handle_string(chunk): the chunk is appended to the accumulated bytes, and
\* the headers and the body are read from them as far as they have arrived.
\* The message is unparsable when the headers give no body length (a
\* malformed header line, no Content-Length, a Content-Length that is no
\* number); it then counts as completed, for the dispatcher to answer, with
\* a null body, as does a body that is no JSON text.
handle_string(message_buffer, chunk) ==
    LET raw == message_buffer.raw \o chunk
        at == SeparatorAt(raw)
        lines == HeaderLines(SubSeq(raw, 1, at))
        hdrs == Headers(lines)
        declared == IF "Content-Length" \in DOMAIN hdrs THEN hdrs["Content-Length"] ELSE ""
        unparsable ==
            /\ at >= 0
            /\ \/ \E i \in 1..Len(lines) : ~HeaderWellFormed(lines[i])
               \/ declared = ""
               \/ ~AllDigits(declared)
        start == at + SeparatorLen(raw, at) + 1
        completed ==
            /\ at >= 0
            /\ (unparsable \/ Len(raw) - start + 1 >= StrToNat(declared))
        parsed == ParseJson(SubSeq(raw, start, start + StrToNat(declared) - 1))
    IN  [raw |-> raw,
         completed |-> completed,
         unparsable |-> unparsable,
         headers |-> IF at >= 0 THEN hdrs ELSE <<>>,
         body |-> IF completed /\ ~unparsable /\ parsed.ok THEN parsed.v ELSE JNull]

message_completed(message_buffer) == message_buffer.completed

headers(message_buffer) == message_buffer.headers

\* body(): the body deserialized.
Body(message_buffer) == message_buffer.body

\* ------------------------------------------------------------------------
\* make_response (main.cpp): the response encoder
\* ------------------------------------------------------------------------

\* j[key] = v on a json object (null becomes an object first).
Set(j, k, v) == [t |-> "obj", s |-> "", n |-> 0, c |-> Insert(j.c, k, v, TRUE)]

ContentLengthHeader == "Content-Length: "

ContentTypeHeader == "Content-Type: application/vscode-jsonrpc;charset=utf-8\r\n"

\* make_response with the length of the body as json::dump() without
\* indentation would give it.
make_response_CompactLength(response) ==
    LET content == Set(response, "jsonrpc", JStr("2.0"))
        dumped == Dump(content)
        header == ContentLengthHeader \o IntToStr(Len(DumpAt(content, 0, 0))) \o "\r\n"
                  \o ContentTypeHeader
                  \o "\r\n"
    IN  header \o dumped

make_response(response) ==
    LET content == Set(response, "jsonrpc", JStr("2.0"))
        dumped == Dump(content)
        header == ContentLengthHeader \o IntToStr(Len(dumped)) \o "\r\n"
                  \o ContentTypeHeader
                  \o "\r\n"
    IN  header \o dumped

\* ------------------------------------------------------------------------
\* find_language and get_diagnostics (main.cpp): the diagnostic translator
\* ------------------------------------------------------------------------

\* 1-based position of the last occurrence of the byte b in s, 0 if none.
LastOf(s, b) ==
    LET at == {i \in 1..Len(s) : Ch(s, i) = b}
    IN  IF at = {} THEN 0 ELSE CHOOSE i \in at : \A j \in at : j <= i

\* fs::path(name).extension(): from the rightmost period of the filename,
\* empty when it has none or is "." or "..".
Extension(name) ==
    LET filename == From(name, LastOf(name, "/") + 1)
        dot == LastOf(filename, ".")
    IN  IF dot = 0 \/ filename \in {".", ".."} THEN "" ELSE From(filename, dot)

\* The shader stage of a document name; thrown holds when the function
\* leaves by std::invalid_argument.
find_language(name) ==
    LET ext == Extension(name)
    IN  CASE ext = ".vert" -> [thrown |-> FALSE, lang |-> "EShLangVertex"]
          [] ext = ".tesc" -> [thrown |-> FALSE, lang |-> "EShLangTessControl"]
          [] ext = ".tese" -> [thrown |-> FALSE, lang |-> "EShLangTessEvaluation"]
          [] ext = ".geom" -> [thrown |-> FALSE, lang |-> "EShLangGeometry"]
          [] ext = ".frag" -> [thrown |-> FALSE, lang |-> "EShLangFragment"]
          [] ext = ".comp" -> [thrown |-> FALSE, lang |-> "EShLangCompute"]
          [] OTHER -> [thrown |-> TRUE, lang |-> ""]

\* "." of an ECMAScript regex matches every byte but a line terminator.
NoLineEnd(s, from, to) == \A i \in from..to : Ch(s, i) \notin {"\n", "\r"}

RECURSIVE DotStarEnd(_, _)
\* The position after the longest run of "." from position i.
DotStarEnd(s, i) ==
    IF i <= Len(s) /\ Ch(s, i) \notin {"\n", "\r"} THEN DotStarEnd(s, i + 1) ELSE i

\* std::regex_search(line, matches, "(.*): 0:(\\d*): (.*)").  The match
\* starts as far left as one can and its first group is as long as can be.
\* size is matches.size(): 4 on a match, 0 on none.
OuterMarkAt(line, p) ==
    StartsAt(line, ": 0:", p + 1) /\ StartsAt(line, ": ", DigitsEnd(line, p + 5))

OuterStart(line, p) ==
    LET cut == {i \in 1..p : Ch(line, i) \in {"\n", "\r"}}
    IN  IF cut = {} THEN 0 ELSE CHOOSE i \in cut : \A j \in cut : j <= i

OuterMatch(line) ==
    LET marks == {p \in 0..Len(line) : OuterMarkAt(line, p)}
        first == CHOOSE p \in marks : \A q \in marks : p <= q
        start == OuterStart(line, first)
        same == {p \in marks : OuterStart(line, p) = start}
        p == CHOOSE q \in same : \A r \in same : r <= q
        digitsTo == DigitsEnd(line, p + 5)
    IN  IF marks = {} THEN [size |-> 0, g1 |-> "", g2 |-> "", g3 |-> ""]
        ELSE [size |-> 4,
              g1 |-> SubSeq(line, start + 1, p),
              g2 |-> SubSeq(line, p + 5, digitsTo - 1),
              g3 |-> SubSeq(line, digitsTo + 2, DotStarEnd(line, digitsTo + 2) - 1)]

\* std::regex_search(message, message_matches, "'(.*)' : (.*)").
InnerMatch(message) ==
    LET pairs == {pr \in (1..Len(message)) \X (1..Len(message)) :
                    /\ Ch(message, pr[1]) = "'"
                    /\ pr[1] < pr[2]
                    /\ StartsAt(message, "' : ", pr[2])
                    /\ NoLineEnd(message, pr[1] + 1, pr[2] - 1)}
        a == CHOOSE x \in {pr[1] : pr \in pairs} : \A pr \in pairs : x <= pr[1]
        q == CHOOSE y \in {pr[2] : pr \in {z \in pairs : z[1] = a}} :
                \A pr \in {z \in pairs : z[1] = a} : pr[2] <= y
    IN  IF pairs = {} THEN [size |-> 0, g1 |-> ""]
        ELSE [size |-> 3, g1 |-> SubSeq(message, a + 1, q - 1)]

SeverityError == 1
SeverityWarning == 2
SeverityUnknown == -1

\* The diagnostic of one matched log line with the end of the span on the
\* byte after the identifier.
Diagnostic_EndPastIdentifier(matches, read) ==
    LET severity == matches.g1
        severity_no == IF severity = "ERROR" THEN SeverityError
                       ELSE IF severity = "WARNING" THEN SeverityWarning
                       ELSE SeverityUnknown
        message == trim(matches.g3, " ")
        line_no == StrToNat(matches.g2) - 1
        source_line == read
        message_matches == InnerMatch(message)
        identifier == message_matches.g1
        identifier_length == Len(message_matches.g1)
        \* std::string::npos converted to int is -1, and npos + n - 1
        \* wraps around to n - 2: both as the integer arithmetic on -1.
        source_pos == Find(source_line, identifier, 0)
        start_char == IF message_matches.size = 3 THEN source_pos ELSE 0
        end_char == IF message_matches.size = 3
                    THEN source_pos + identifier_length
                    ELSE Len(source_line)
        range == JObj(<<
            <<"start", JObj(<< <<"line", JNum(line_no)>>, <<"character", JNum(start_char)>> >>)>>,
            <<"end", JObj(<< <<"line", JNum(line_no)>>, <<"character", JNum(end_char)>> >>)>> >>)
    IN  JObj(<< <<"range", range>>,
                <<"severity", JNum(severity_no)>>,
                <<"source", JStr("glslang")>>,
                <<"message", JStr(message)>> >>)

\* The diagnostic of one matched log line with a whole-line span that ends
\* on the last byte of the line.
Diagnostic_FallbackToLastByte(matches, read) ==
    LET severity == matches.g1
        severity_no == IF severity = "ERROR" THEN SeverityError
                       ELSE IF severity = "WARNING" THEN SeverityWarning
                       ELSE SeverityUnknown
        message == trim(matches.g3, " ")
        line_no == StrToNat(matches.g2) - 1
        source_line == read
        message_matches == InnerMatch(message)
        identifier == message_matches.g1
        identifier_length == Len(message_matches.g1)
        \* std::string::npos converted to int is -1, and npos + n - 1
        \* wraps around to n - 2: both as the integer arithmetic on -1.
        source_pos == Find(source_line, identifier, 0)
        start_char == IF message_matches.size = 3 THEN source_pos ELSE 0
        end_char == IF message_matches.size = 3
                    THEN source_pos + identifier_length - 1
                    ELSE Len(source_line) - 1
        range == JObj(<<
            <<"start", JObj(<< <<"line", JNum(line_no)>>, <<"character", JNum(start_char)>> >>)>>,
            <<"end", JObj(<< <<"line", JNum(line_no)>>, <<"character", JNum(end_char)>> >>)>> >>)
    IN  JObj(<< <<"range", range>>,
                <<"severity", JNum(severity_no)>>,
                <<"source", JStr("glslang")>>,
                <<"message", JStr(message)>> >>)

\* The diagnostic of one matched log line with a severity that is an error
\* unless it is a warning.
Diagnostic_UnknownAsError(matches, read) ==
    LET severity == matches.g1
        severity_no == IF severity = "ERROR" THEN SeverityError
                       ELSE IF severity = "WARNING" THEN SeverityWarning
                       ELSE SeverityError
        message == trim(matches.g3, " ")
        line_no == StrToNat(matches.g2) - 1
        source_line == read
        message_matches == InnerMatch(message)
        identifier == message_matches.g1
        identifier_length == Len(message_matches.g1)
        \* std::string::npos converted to int is -1, and npos + n - 1
        \* wraps around to n - 2: both as the integer arithmetic on -1.
        source_pos == Find(source_line, identifier, 0)
        start_char == IF message_matches.size = 3 THEN source_pos ELSE 0
        end_char == IF message_matches.size = 3
                    THEN source_pos + identifier_length - 1
                    ELSE Len(source_line)
        range == JObj(<<
            <<"start", JObj(<< <<"line", JNum(line_no)>>, <<"character", JNum(start_char)>> >>)>>,
            <<"end", JObj(<< <<"line", JNum(line_no)>>, <<"character", JNum(end_char)>> >>)>> >>)
    IN  JObj(<< <<"range", range>>,
                <<"severity", JNum(severity_no)>>,
                <<"source", JStr("glslang")>>,
                <<"message", JStr(message)>> >>)

\* The diagnostic of one matched log line (lines 102-155).  read is what
\* content_lines[line_no] gives: the source line, or, for an index outside
\* the vector, whatever the unchecked read produces.
Diagnostic(matches, read) ==
    LET severity == matches.g1
        severity_no == IF severity = "ERROR" THEN SeverityError
                       ELSE IF severity = "WARNING" THEN SeverityWarning
                       ELSE SeverityUnknown
        message == trim(matches.g3, " ")
        line_no == StrToNat(matches.g2) - 1
        source_line == read
        message_matches == InnerMatch(message)
        identifier == message_matches.g1
        identifier_length == Len(message_matches.g1)
        \* std::string::npos converted to int is -1, and npos + n - 1
        \* wraps around to n - 2: both as the integer arithmetic on -1.
        source_pos == Find(source_line, identifier, 0)
        start_char == IF message_matches.size = 3 THEN source_pos ELSE 0
        end_char == IF message_matches.size = 3
                    THEN source_pos + identifier_length - 1
                    ELSE Len(source_line)
        range == JObj(<<
            <<"start", JObj(<< <<"line", JNum(line_no)>>, <<"character", JNum(start_char)>> >>)>>,
            <<"end", JObj(<< <<"line", JNum(line_no)>>, <<"character", JNum(end_char)>> >>)>> >>)
    IN  JObj(<< <<"range", range>>,
                <<"severity", JNum(severity_no)>>,
                <<"source", JStr("glslang")>>,
                <<"message", JStr(message)>> >>)

\* Logs the shader compiler answers with.
CompilerLogs ==
    {"",
     "ERROR: 1 compilation errors.  No code generated.\n",
     "ERROR: 0:1: 'b' : undeclared identifier\nERROR: 1 compilation errors.  No code generated.\n",
     "WARNING: 0:2: 'zz' : not supported\nNOTE: 0:1:  deprecated \n",
     "ERROR: 0:3: '' : syntax error, unexpected \"}\"\n",
     "ERROR: 0:: no line\n"}

\* What a read of content_lines outside its bounds does: the process dies,
\* or the read yields some bytes.
OutOfBoundsReads == {[fault |-> TRUE, line |-> ""], [fault |-> FALSE, line |-> "\"b"]}

\* The loop over the log lines from the i-th on (lines 99-157), diagnostics
\* the list so far: the results it can end with, each a fault or the list.
\* A read of content_lines outside its bounds, which the vector does not
\* check, may do any of OutOfBoundsReads.
RECURSIVE DiagnosticsLoop(_, _, _, _)
DiagnosticsLoop(error_lines, i, content_lines, diagnostics) ==
    IF i > Len(error_lines) THEN {[fault |-> FALSE, diagnostics |-> diagnostics]}
    ELSE LET matches == OuterMatch(error_lines[i])
             line_no == StrToNat(matches.g2) - 1
         IN  IF matches.size # 4
             THEN DiagnosticsLoop(error_lines, i + 1, content_lines, diagnostics)
             \* std::stoi("") throws std::invalid_argument
             ELSE IF matches.g2 = "" THEN {[fault |-> TRUE, diagnostics |-> diagnostics]}
             ELSE IF line_no >= 0 /\ line_no < Len(content_lines)
             THEN DiagnosticsLoop(error_lines, i + 1, content_lines,
                      PushBack(diagnostics, Diagnostic(matches, content_lines[line_no + 1])))
             ELSE UNION {
                      IF oob.fault THEN {[fault |-> TRUE, diagnostics |-> diagnostics]}
                      ELSE DiagnosticsLoop(error_lines, i + 1, content_lines,
                               PushBack(diagnostics, Diagnostic(matches, oob.line)))
                      : oob \in OutOfBoundsReads}

\* Lines 93-162: the translation of the log debug_log of the source content.
Translate(content, debug_log) ==
    LET error_lines == split_string(debug_log, "\n")
        content_lines == split_string(content, "\n")
    IN  DiagnosticsLoop(error_lines, 1, content_lines, JNull)

\* get_diagnostics(uri, content, appstate): the results the call can have.
\* fault: it left by an exception or died; compiled: the compiler was
\* invoked, and answered debug_log; content: the source it was called with;
\* diagnostics: the list returned.
get_diagnostics(uri, content) ==
    IF find_language(uri).thrown
    THEN {[fault |-> TRUE, compiled |-> FALSE, content |-> content, debug_log |-> "",
           diagnostics |-> JNull]}
    ELSE UNION {
             {[fault |-> r.fault, compiled |-> TRUE, content |-> content, debug_log |-> log,
               diagnostics |-> r.diagnostics]
                : r \in Translate(content, log)}
             : log \in CompilerLogs}

\* ------------------------------------------------------------------------
\* handle_message (main.cpp): the dispatcher
\* ------------------------------------------------------------------------

\* j[key] on a json that is not const: a null becomes an object, a missing
\* key is added with the value null, and anything else than a null or an
\* object throws.  after is j as the access leaves it.
Subscript(j, k) ==
    IF j.t \notin {"null", "obj"} THEN [thrown |-> TRUE, v |-> JNull, after |-> j]
    ELSE [thrown |-> FALSE,
          v |-> Get(j, k),
          after |-> [t |-> "obj", s |-> "", n |-> 0, c |-> Insert(j.c, k, JNull, FALSE)]]

\* j[k1][k2]...: the value reached, thrown when a step throws.
RECURSIVE Path(_, _)
Path(j, keys) ==
    IF keys = <<>> THEN [thrown |-> FALSE, v |-> j]
    ELSE IF Subscript(j, keys[1]).thrown THEN [thrown |-> TRUE, v |-> JNull]
    ELSE Path(Subscript(j, keys[1]).v, Tail(keys))

\* j[0]: the first element, null when there is none; throws on anything
\* else than a null or an array.
First(j) ==
    IF j.t \notin {"null", "arr"} THEN [thrown |-> TRUE, v |-> JNull]
    ELSE [thrown |-> FALSE, v |-> IF j.c = <<>> THEN JNull ELSE j.c[1].v]

\* The conversion of a json to std::string throws unless it is a string.
IsString(j) == j.t = "str"

\* What a call of handle_message leaves behind: kind "none" (std::nullopt),
\* "frame" (make_response of payload, in frame) or "fault" (left by an
\* exception); the workspace after the call; the operations it called, in
\* order; the log the compiler answered with, if it was asked, and the
\* source get_diagnostics was called with, if it was called.
Silence(ws) ==
    [kind |-> "none", payload |-> JNull, frame |-> "", workspace |-> ws,
     calls |-> <<>>, debug_log |-> "", content |-> ""]

Fault(ws, calls) ==
    [kind |-> "fault", payload |-> JNull, frame |-> "", workspace |-> ws,
     calls |-> calls, debug_log |-> "", content |-> ""]

\* return make_response(result_body)
Respond(result_body, ws, calls, debug_log) ==
    [kind |-> "frame", payload |-> result_body, frame |-> make_response(result_body),
     workspace |-> ws, calls |-> calls, debug_log |-> debug_log, content |-> ""]

\* An outcome of a branch that has called get_diagnostics, with what the
\* pass was called with and what the compiler answered in it.
Diagnosed(outcome, pass) ==
    [outcome EXCEPT !.debug_log = pass.debug_log, !.content = pass.content]

NotInitializedCode == -32002
MethodNotFoundCode == -32601
ParseErrorCode == -32700
FullSync == 1

ErrorBody(code, message) ==
    JObj(<< <<"error", JObj(<< <<"code", JNum(code)>>, <<"message", JStr(message)>> >>)>> >>)

\* Lines 176-227: the capabilities descriptor.
Capabilities ==
    LET text_document_sync == JObj(<<
            <<"openClose", JBool(TRUE)>>,
            <<"change", JNum(FullSync)>>,
            <<"willSave", JBool(FALSE)>>,
            <<"willSaveWaitUntil", JBool(FALSE)>>,
            <<"save", JObj(<< <<"includeText", JBool(FALSE)>> >>)>> >>)
        completion_provider == JObj(<<
            <<"resolveProvider", JBool(FALSE)>>,
            <<"triggerCharacters", JNull>> >>)
        signature_help_provider == JObj(<< <<"triggerCharacters", JStr("")>> >>)
        code_lens_provider == JObj(<< <<"resolveProvider", JBool(FALSE)>> >>)
        document_on_type_formatting_provider == JObj(<<
            <<"firstTriggerCharacter", JStr("")>>,
            <<"moreTriggerCharacter", JStr("")>> >>)
        document_link_provider == JObj(<< <<"resolveProvider", JBool(FALSE)>> >>)
        execute_command_provider == JObj(<< <<"commands", JNull>> >>)
    IN  JObj(<<
            <<"textDocumentSync", text_document_sync>>,
            <<"hoverProvider", JBool(FALSE)>>,
            <<"completionProvider", completion_provider>>,
            <<"signatureHelpProvider", signature_help_provider>>,
            <<"definitionProvider", JBool(FALSE)>>,
            <<"referencesProvider", JBool(FALSE)>>,
            <<"documentHighlightProvider", JBool(FALSE)>>,
            <<"documentSymbolProvider", JBool(FALSE)>>,
            <<"workspaceSymbolProvider", JBool(FALSE)>>,
            <<"codeActionProvider", JBool(FALSE)>>,
            <<"codeLensProvider", code_lens_provider>>,
            <<"documentFormattingProvider", JBool(FALSE)>>,
            <<"documentRangeFormattingProvider", JBool(FALSE)>>,
            <<"documentOnTypeFormattingProvider", document_on_type_formatting_provider>>,
            <<"renameProvider", JBool(FALSE)>>,
            <<"documentLinkProvider", document_link_provider>>,
            <<"executeCommandProvider", execute_command_provider>>,
            <<"experimental", JNull>> >>)

\* The "initialize" branch without its call of set_initialized.
Initialize_FlagUntouched(body, ws) ==
    LET result == JObj(<< <<"capabilities", Capabilities>> >>)
        result_body == JObj(<< <<"id", Get(body, "id")>>, <<"result", result>> >>)
    IN  {Respond(result_body, ws, <<>>, "")}

\* The "initialize" branch with a response that does not take the id of the
\* request.
Initialize_IdDropped(body, ws) ==
    LET result == JObj(<< <<"capabilities", Capabilities>> >>)
        result_body == JObj(<< <<"id", JNull>>, <<"result", result>> >>)
    IN  {Respond(result_body, set_initialized(ws, TRUE), <<"set_initialized">>, "")}

\* Lines 173-233: the "initialize" branch.
Initialize(body, ws) ==
    LET result == JObj(<< <<"capabilities", Capabilities>> >>)
        result_body == JObj(<< <<"id", Get(body, "id")>>, <<"result", result>> >>)
    IN  {Respond(result_body, set_initialized(ws, TRUE), <<"set_initialized">>, "")}

\* The publishDiagnostics notification with the list as get_diagnostics
\* returned it.
PublishDiagnostics_ListAsReturned(uri, diagnostics) ==
    JObj(<< <<"method", JStr("textDocument/publishDiagnostics")>>,
            <<"params", JObj(<< <<"uri", uri>>, <<"diagnostics", diagnostics>> >>)>> >>)

\* Lines 243-250 and 261-268: the publishDiagnostics notification.
PublishDiagnostics(uri, diagnostics) ==
    JObj(<< <<"method", JStr("textDocument/publishDiagnostics")>>,
            <<"params", JObj(<< <<"uri", uri>>,
                                <<"diagnostics", IF Empty(diagnostics) THEN JArr(<<>>)
                                                 ELSE diagnostics>> >>)>> >>)

\* The calls of one get_diagnostics pass.
DiagnosticCalls(pass) ==
    IF pass.compiled THEN <<"get_diagnostics", "compile">> ELSE <<"get_diagnostics">>

\* The "textDocument/didOpen" branch with a document that is added only when
\* the workspace holds none of its uri.
DidOpen_FirstKept(body, ws) ==
    LET uri == Path(body, <<"params", "textDocument", "uri">>)
        text == Path(body, <<"params", "textDocument", "text">>)
        added == IF uri.v.s \in DOMAIN ws.documents THEN ws
                 ELSE add_document(ws, uri.v.s, text.v.s)
    IN  IF uri.thrown \/ text.thrown \/ ~IsString(uri.v) \/ ~IsString(text.v)
        THEN {Fault(ws, <<>>)}
        ELSE {Diagnosed(
                  IF pass.fault
                  THEN Fault(added, <<"add_document">> \o DiagnosticCalls(pass))
                  ELSE Respond(PublishDiagnostics(uri.v, pass.diagnostics),
                               added, <<"add_document">> \o DiagnosticCalls(pass), pass.debug_log),
                  pass)
                : pass \in get_diagnostics(uri.v.s, text.v.s)}

\* Lines 234-250: the "textDocument/didOpen" branch.
DidOpen(body, ws) ==
    LET uri == Path(body, <<"params", "textDocument", "uri">>)
        text == Path(body, <<"params", "textDocument", "text">>)
        added == add_document(ws, uri.v.s, text.v.s)
    IN  IF uri.thrown \/ text.thrown \/ ~IsString(uri.v) \/ ~IsString(text.v)
        THEN {Fault(ws, <<>>)}
        ELSE {Diagnosed(
                  IF pass.fault
                  THEN Fault(added, <<"add_document">> \o DiagnosticCalls(pass))
                  ELSE Respond(PublishDiagnostics(uri.v, pass.diagnostics),
                               added, <<"add_document">> \o DiagnosticCalls(pass), pass.debug_log),
                  pass)
                : pass \in get_diagnostics(uri.v.s, text.v.s)}

\* The "textDocument/didChange" branch with the text of the document read
\* from the workspace as it was before the change.
DidChange_StaleText(body, ws) ==
    LET uri == Path(body, <<"params", "textDocument", "uri">>)
        changes == Path(body, <<"params", "contentChanges">>)
        first == First(changes.v)
        change == Path(first.v, <<"text">>)
        changed == change_document(ws, uri.v.s, change.v.s)
        document == DocumentText(ws, uri.v.s)
    IN  IF \/ uri.thrown \/ changes.thrown \/ first.thrown \/ change.thrown
           \/ ~IsString(uri.v) \/ ~IsString(change.v)
        THEN {Fault(ws, <<>>)}
        ELSE {Diagnosed(
                  IF pass.fault
                  THEN Fault(changed, <<"change_document">> \o DiagnosticCalls(pass))
                  ELSE Respond(PublishDiagnostics(uri.v, pass.diagnostics),
                               changed, <<"change_document">> \o DiagnosticCalls(pass), pass.debug_log),
                  pass)
                : pass \in get_diagnostics(uri.v.s, document)}

\* Lines 251-268: the "textDocument/didChange" branch.
DidChange(body, ws) ==
    LET uri == Path(body, <<"params", "textDocument", "uri">>)
        changes == Path(body, <<"params", "contentChanges">>)
        first == First(changes.v)
        change == Path(first.v, <<"text">>)
        changed == change_document(ws, uri.v.s, change.v.s)
        document == DocumentText(changed, uri.v.s)
    IN  IF \/ uri.thrown \/ changes.thrown \/ first.thrown \/ change.thrown
           \/ ~IsString(uri.v) \/ ~IsString(change.v)
        THEN {Fault(ws, <<>>)}
        ELSE {Diagnosed(
                  IF pass.fault
                  THEN Fault(changed, <<"change_document">> \o DiagnosticCalls(pass))
                  ELSE Respond(PublishDiagnostics(uri.v, pass.diagnostics),
                               changed, <<"change_document">> \o DiagnosticCalls(pass), pass.debug_log),
                  pass)
                : pass \in get_diagnostics(uri.v.s, document)}

\* Lines 271-283: the guard on the initialization state.
NotInitialized(method, ws) ==
    method # JStr("initialize") /\ ~is_initialized(ws)

\* The answer to a method not routed, with a message that leaves the method
\* out.
MethodNotSupported_Unnamed(method, ws) ==
    IF ~IsString(method) THEN Fault(ws, <<>>)
    ELSE Respond(ErrorBody(MethodNotFoundCode, "Method not supported."), ws, <<>>, "")

\* Lines 285-295: the answer to a method that is present and not routed.
\* get<std::string>() throws on a method that is no string.
MethodNotSupported(method, ws) ==
    IF ~IsString(method) THEN Fault(ws, <<>>)
    ELSE Respond(ErrorBody(MethodNotFoundCode, "Method '" \o method.s \o "' not supported."),
                 ws, <<>>, "")

\* What follows the routed branches, with a guard that marks the workspace
\* initialized as it refuses.
Unrouted_InitializesOnError(body, ws) ==
    LET method == Get(body, "method")
    IN  IF NotInitialized(method, ws)
        THEN Respond(ErrorBody(NotInitializedCode, "Server not yet initialized."),
                     set_initialized(ws, TRUE), <<>>, "")
        ELSE IF Count(body, "method") = 1
        THEN MethodNotSupported(method, ws)
        ELSE Respond(ErrorBody(ParseErrorCode, "Couldn't parse message."), ws, <<>>, "")

\* Lines 274-305: what follows the routed branches.  body is the body as
\* the accesses body["method"] above have left it.
Unrouted(body, ws) ==
    LET method == Get(body, "method")
    IN  IF NotInitialized(method, ws)
        THEN Respond(ErrorBody(NotInitializedCode, "Server not yet initialized."), ws, <<>>, "")
        ELSE IF Count(body, "method") = 1
        THEN MethodNotSupported(method, ws)
        ELSE Respond(ErrorBody(ParseErrorCode, "Couldn't parse message."), ws, <<>>, "")

\* handle_message with the guard on the initialization state ahead of the
\* routing table.
handle_message_GuardFirst(message, ws) ==
    LET access == Subscript(message, "method")
        body == access.after
        method == access.v
    IN  IF access.thrown THEN {Fault(ws, <<>>)}
        ELSE IF NotInitialized(method, ws) THEN {Unrouted(body, ws)}
        ELSE IF method = JStr("initialized") THEN {Silence(ws)}
        ELSE IF method = JStr("initialize") THEN Initialize(body, ws)
        ELSE IF method = JStr("textDocument/didOpen") THEN DidOpen(body, ws)
        ELSE IF method = JStr("textDocument/didChange") THEN DidChange(body, ws)
        ELSE {Unrouted(body, ws)}

\* handle_message with an acknowledgement of the "initialized" notification.
handle_message_InitializedAcknowledged(message, ws) ==
    LET access == Subscript(message, "method")
        body == access.after
        method == access.v
    IN  IF access.thrown THEN {Fault(ws, <<>>)}
        ELSE IF method = JStr("initialized")
        THEN {Respond(JObj(<< <<"result", JNull>> >>), ws, <<>>, "")}
        ELSE IF method = JStr("initialize") THEN Initialize(body, ws)
        ELSE IF method = JStr("textDocument/didOpen") THEN DidOpen(body, ws)
        ELSE IF method = JStr("textDocument/didChange") THEN DidChange(body, ws)
        ELSE {Unrouted(body, ws)}

\* handle_message(message_buffer, appstate), message the body the buffer
\* holds, ws the workspace of appstate: the outcomes the call can have (one,
\* but for the answers of the compiler and the reads outside a vector).
handle_message(message, ws) ==
    LET access == Subscript(message, "method")
        body == access.after
        method == access.v
    IN  IF access.thrown THEN {Fault(ws, <<>>)}
        ELSE IF method = JStr("initialized") THEN {Silence(ws)}
        ELSE IF method = JStr("initialize") THEN Initialize(body, ws)
        ELSE IF method = JStr("textDocument/didOpen") THEN DidOpen(body, ws)
        ELSE IF method = JStr("textDocument/didChange") THEN DidChange(body, ws)
        ELSE {Unrouted(body, ws)}

\* ------------------------------------------------------------------------
\* The client and the shader compiler: the inputs of the session
\* ------------------------------------------------------------------------

\* The largest request id the client uses.
MaxId == 2

\* Names of documents: two of shader stages, one of no stage.
Uris == {"a.vert", "b.frag", "c.txt"}

Texts == {"int a;\nb = zz;", "int b, bb;"}

InitializeBody(id) ==
    "{\"jsonrpc\":\"2.0\",\"id\":" \o IntToStr(id) \o ",\"method\":\"initialize\",\"params\":{}}"

InitializedBody == "{\"jsonrpc\":\"2.0\",\"method\":\"initialized\"}"

DidOpenBody(uri, text) ==
    "{\"jsonrpc\":\"2.0\",\"method\":\"textDocument/didOpen\",\"params\":{\"textDocument\":{\"uri\":"
    \o Quoted(uri) \o ",\"text\":" \o Quoted(text) \o "}}}"

DidChangeBody(uri, text) ==
    "{\"jsonrpc\":\"2.0\",\"method\":\"textDocument/didChange\",\"params\":{\"textDocument\":{\"uri\":"
    \o Quoted(uri) \o "},\"contentChanges\":[{\"text\":" \o Quoted(text) \o "}]}}"

\* Methods the routing table does not hold.
UnknownMethods == {"foo/bar", "shutdown"}

UnknownMethodBody(method) ==
    "{\"jsonrpc\":\"2.0\",\"id\":1,\"method\":" \o Quoted(method) \o "}"

NoMethodBody == "{\"jsonrpc\":\"2.0\",\"id\":1}"

NoParamsBody == "{\"jsonrpc\":\"2.0\",\"method\":\"textDocument/didOpen\"}"

\* The frame of the wire protocol around a body.
ClientFrame(text) == "Content-Length: " \o IntToStr(Len(text)) \o "\r\n\r\n" \o text

ClientBodies ==
    {InitializeBody(id) : id \in 1..MaxId}
    \cup {InitializedBody, NoMethodBody, NoParamsBody}
    \cup {UnknownMethodBody(m) : m \in UnknownMethods}
    \cup {DidOpenBody(u, t) : u \in Uris, t \in Texts}
    \cup {DidChangeBody(u, t) : u \in Uris, t \in Texts}

ClientFrames == {ClientFrame(b) : b \in ClientBodies}

\* The messages of the runs in which the transport delivers a message in
\* pieces.
ChunkedFrames ==
    {ClientFrame(InitializeBody(1)), ClientFrame(UnknownMethodBody("foo/bar")),
     ClientFrame(DidOpenBody("a.vert", "int b, bb;"))}

\* hm->message.p is read up to the first NUL byte, which the receive buffer
\* need not hold at the end of the message: the bytes read past it.
Overreads == {"", "}"}

\* ------------------------------------------------------------------------
\* The session
\* ------------------------------------------------------------------------

VARIABLES
    workspace,    \* appstate.workspace
    use_logfile,  \* appstate.use_logfile
    alive,        \* FALSE once an exception has left ev_handler
    sent,         \* the frame the client is sending
    wire,         \* the bytes of sent the transport has not delivered yet
    dispatched,   \* the calls of handle_message for sent
    received,     \* the body handle_message was called with for sent
    before,       \* the workspace when handle_message was called for sent
    response,     \* what ev_handler has answered to sent
    calls,        \* the operations handle_message called for sent
    debug_log,    \* the log the compiler answered with for sent
    diagnosed,    \* the source get_diagnostics was called with for sent
    called        \* every operation called so far

vars == <<workspace, use_logfile, alive, sent, wire, dispatched, received,
          before, response, calls, debug_log, diagnosed, called>>

NoResponse == [kind |-> "none", payload |-> JNull, frame |-> ""]

Init ==
    /\ workspace = NewWorkspace
    /\ use_logfile \in BOOLEAN
    /\ alive = TRUE
    /\ sent = ""
    /\ wire = ""
    /\ dispatched = 0
    /\ received = JNull
    /\ before = NewWorkspace
    /\ response = NoResponse
    /\ calls = <<>>
    /\ debug_log = ""
    /\ diagnosed = ""
    /\ called = {}

\* The client starts to send a frame; nothing of it has been handled yet.
Send(frame) ==
    /\ alive
    /\ wire = ""
    /\ sent' = frame
    /\ wire' = frame
    /\ dispatched' = 0
    /\ received' = JNull
    /\ before' = workspace
    /\ response' = NoResponse
    /\ calls' = <<>>
    /\ debug_log' = ""
    /\ diagnosed' = ""
    /\ UNCHANGED <<workspace, use_logfile, alive, called>>

\* Line 322: the log line of a received message, written when a log file is
\* in use, throws unless the body has a method that is a string.
LogThrows(message) ==
    use_logfile /\ (Subscript(message, "method").thrown \/ ~IsString(Get(message, "method")))

\* Line 314: the bytes of the event are read up to the first NUL byte, past
\* the end of the message when the receive buffer holds none there.
\* Lines 316-319: a MessageBuffer of its own takes them; what it then says
\* of the message.
Readings(bytes) ==
    {[completed |-> message_completed(message_buffer), body |-> Body(message_buffer)]
        : message_buffer \in {handle_string(NewMessageBuffer, bytes \o over) : over \in Overreads}}

\* ev_handler(c, MG_EV_HTTP_REQUEST, p), bytes the bytes of the event: a
\* completed message is logged, dispatched and answered.
ev_handler(bytes) ==
    \E reading \in Readings(bytes) :
        IF ~reading.completed
        THEN UNCHANGED <<workspace, alive, dispatched, received, before, response,
                         calls, debug_log, diagnosed, called>>
        ELSE IF LogThrows(reading.body)
        THEN /\ alive' = FALSE
             /\ response' = [kind |-> "fault", payload |-> JNull, frame |-> ""]
             /\ UNCHANGED <<workspace, dispatched, received, before, calls, debug_log,
                          diagnosed, called>>
        ELSE \E result \in handle_message(reading.body, workspace) :
                /\ workspace' = result.workspace
                /\ alive' = (result.kind # "fault")
                /\ dispatched' = dispatched + 1
                /\ received' = reading.body
                /\ before' = workspace
                /\ response' = [kind |-> result.kind, payload |-> result.payload,
                                frame |-> result.frame]
                /\ calls' = result.calls
                /\ debug_log' = result.debug_log
                /\ diagnosed' = result.content
                /\ called' = called \cup {result.calls[i] : i \in 1..Len(result.calls)}

\* The transport hands the next n bytes of the wire to ev_handler.
Deliver(n) ==
    /\ alive
    /\ wire # ""
    /\ wire' = From(wire, n + 1)
    /\ ev_handler(SubSeq(wire, 1, n))
    /\ UNCHANGED <<use_logfile, sent>>

SendAny == \E frame \in ClientFrames : Send(frame)

SendChunked == \E frame \in ChunkedFrames : Send(frame)

\* A message arrives whole, as one transport event.
DeliverWhole == Deliver(Len(wire))

\* A message arrives in pieces of any size, one transport event each.
DeliverChunk == \E n \in 1..Len(wire) : Deliver(n)

Next == SendAny \/ DeliverWhole

Spec == Init /\ [][Next]_vars

NextChunked == SendChunked \/ DeliverChunk

SpecChunked == Init /\ [][NextChunked]_vars

\* ------------------------------------------------------------------------
\* Properties of the dispatcher
\* ------------------------------------------------------------------------

\* The method of the message handle_message was called with.
ReceivedMethod == Get(received, "method")

\* handle_message has been called for the message sent, and has returned or
\* thrown.
Handled == dispatched = 1

\* The methods of the routing table.
RoutedMethods ==
    {"initialize", "initialized", "textDocument/didOpen", "textDocument/didChange"}

ErrorCodeOf(payload) == Get(Get(payload, "error"), "code")

ErrorMessageOf(payload) == Get(Get(payload, "error"), "message")

\* The answer is a frame that carries an error of this code.
AnsweredError(code) ==
    response.kind = "frame" /\ ErrorCodeOf(response.payload) = JNum(code)

\* C1: a message with a method other than "initialize" that handle_message
\* receives while the workspace is not initialized is answered with an error
\* frame of code -32002 and message "Server not yet initialized.".
C1_InitializationGating ==
    (Handled /\ ~is_initialized(before) /\ IsString(ReceivedMethod)
        /\ ReceivedMethod # JStr("initialize"))
    => /\ AnsweredError(NotInitializedCode)
       /\ ErrorMessageOf(response.payload) = JStr("Server not yet initialized.")

\* C2: while the workspace is not initialized its documents are none and
\* neither add_document nor change_document nor get_diagnostics has been
\* called.
C2_NothingServedBeforeInitialize ==
    ~is_initialized(workspace)
    => /\ DOMAIN workspace.documents = {}
       /\ called \cap {"add_document", "change_document", "get_diagnostics"} = {}

\* C3: the initialized flag starts false, becomes true when an "initialize"
\* request is handled and on no other step, and once true stays true.
C3_InitializedOneWay ==
    /\ ~is_initialized(workspace)
    /\ [][/\ is_initialized(workspace) => is_initialized(workspace')
          /\ (~is_initialized(workspace) /\ is_initialized(workspace'))
                => (dispatched' = dispatched + 1 /\ ReceivedMethod' = JStr("initialize"))
          /\ (dispatched' = dispatched + 1 /\ ReceivedMethod' = JStr("initialize"))
                => is_initialized(workspace')]_vars

\* An "initialize" request has been handled again in an initialized
\* workspace, which is still initialized.
C3_Witness ==
    /\ Handled /\ ReceivedMethod = JStr("initialize")
    /\ is_initialized(before) /\ is_initialized(workspace)

\* C4: in an initialized workspace a message whose method is a string the
\* routing table does not hold is answered with an error frame of code
\* -32601 whose message contains the method.
C4_UnknownMethod ==
    (Handled /\ is_initialized(before) /\ IsString(ReceivedMethod)
        /\ ReceivedMethod.s \notin RoutedMethods)
    => /\ AnsweredError(MethodNotFoundCode)
       /\ IsString(ErrorMessageOf(response.payload))
       /\ Find(ErrorMessageOf(response.payload).s, ReceivedMethod.s, 0) >= 0

\* "foo/bar" has been answered in an initialized workspace.
C4_Witness ==
    /\ Handled /\ is_initialized(before) /\ ReceivedMethod = JStr("foo/bar")
    /\ response.kind = "frame"

\* C5: a completed message whose body is an object without a method is
\* answered by handle_message with an error frame of code -32700; it is not
\* answered with -32601 or -32002 and raises no fault.
C5_NoMethodIsParseError ==
    (Handled /\ received.t = "obj" /\ Count(received, "method") = 0)
    => AnsweredError(ParseErrorCode)

\* The document a "textDocument/didOpen" message names, and its text.
OpenedUri == Path(received, <<"params", "textDocument", "uri">>).v

OpenedText == Path(received, <<"params", "textDocument", "text">>).v

\* C6: a "textDocument/didOpen" for a uri the workspace already holds a
\* document of leaves the workspace with one document of that uri, of the
\* text of the message, and the documents of the other uris as they were.
C6_IdempotentOpen ==
    (Handled /\ ReceivedMethod = JStr("textDocument/didOpen")
        /\ IsString(OpenedUri) /\ IsString(OpenedText)
        /\ OpenedUri.s \in DOMAIN before.documents)
    => /\ DOMAIN workspace.documents = DOMAIN before.documents
       /\ workspace.documents[OpenedUri.s] = OpenedText.s
       /\ \A u \in DOMAIN before.documents \ {OpenedUri.s} :
             workspace.documents[u] = before.documents[u]

\* A document has been opened again with another text while the workspace
\* held a document of another uri.
C6_Witness ==
    /\ Handled /\ ReceivedMethod = JStr("textDocument/didOpen")
    /\ IsString(OpenedUri) /\ IsString(OpenedText)
    /\ OpenedUri.s \in DOMAIN before.documents
    /\ before.documents[OpenedUri.s] # OpenedText.s
    /\ DOMAIN before.documents # {OpenedUri.s}
    /\ response.kind = "frame"

\* ------------------------------------------------------------------------
\* Properties of the frames
\* ------------------------------------------------------------------------

\* The offset of the blank line that ends the headers of a frame.
BlankLineAt(frame) == Find(frame, "\r\n\r\n", 0)

\* The bytes of a frame after the blank line.
FrameBody(frame) == From(frame, BlankLineAt(frame) + 5)

\* The number the Content-Length line of a frame declares, -1 when the
\* frame does not start with such a line.
DeclaredLength(frame) ==
    LET eol == Find(frame, "\r\n", 0)
        value == SubSeq(frame, Len(ContentLengthHeader) + 1, eol)
    IN  IF StartsAt(frame, ContentLengthHeader, 1) /\ value # "" /\ AllDigits(value)
        THEN StrToNat(value)
        ELSE -1

\* The json the body of a frame deserializes to.
Decoded(frame) == ParseJson(FrameBody(frame))

\* C7: the Content-Length a frame of make_response declares is the length in
\* bytes of the body after the blank line, and the body deserializes to the
\* payload with the member "jsonrpc": "2.0".
C7_ResponseFraming ==
    response.kind = "frame"
    => /\ BlankLineAt(response.frame) >= 0
       /\ DeclaredLength(response.frame) = Len(FrameBody(response.frame))
       /\ Decoded(response.frame).ok
       /\ Decoded(response.frame).v = Set(response.payload, "jsonrpc", JStr("2.0"))

\* A notification with a diagnostic whose message holds a quote has been
\* framed.
C7_Witness ==
    /\ response.kind = "frame"
    /\ \E i \in 1..Len(Path(response.payload, <<"params", "diagnostics">>).v.c) :
          LET message == Get(Path(response.payload, <<"params", "diagnostics">>).v.c[i].v,
                             "message")
          IN  IsString(message) /\ Find(message.s, "\"", 0) >= 0

\* C8: once the bytes of a message have all been delivered, in chunks of any
\* sizes, the session has dispatched it exactly once, with the body the
\* framer yields when it is given the message whole.
C8_FramingCompleteness ==
    (alive /\ sent # "" /\ wire = "")
    => /\ dispatched = 1
       /\ received = Body(handle_string(NewMessageBuffer, sent))

C10_InitializeResponse ==
    (Handled /\ ReceivedMethod = JStr("initialize"))
    => /\ response.kind = "frame"
       /\ Count(Decoded(response.frame).v, "error") = 0
       /\ Get(Decoded(response.frame).v, "id") = Get(received, "id")
       /\ Path(Decoded(response.frame).v, <<"result", "capabilities">>).v = Capabilities
       /\ Path(Decoded(response.frame).v,
               <<"result", "capabilities", "textDocumentSync", "change">>).v = JNum(1)
       /\ is_initialized(workspace)

\* The request of the largest id has been answered in a workspace that was
\* initialized already.
C10_Witness ==
    /\ Handled /\ ReceivedMethod = JStr("initialize")
    /\ Get(received, "id") = JNum(MaxId)
    /\ is_initialized(before)
    /\ response.kind = "frame"

\* ------------------------------------------------------------------------
\* Properties of the diagnostic passes
\* ------------------------------------------------------------------------

\* The message handled is a document notification that names its document.
DocumentMessage ==
    /\ Handled
    /\ ReceivedMethod \in {JStr("textDocument/didOpen"), JStr("textDocument/didChange")}
    /\ IsString(Path(received, <<"params", "textDocument", "uri">>).v)

\* The uri such a message names.
DocumentUri == Path(received, <<"params", "textDocument", "uri">>).v.s

\* C11: a didOpen or didChange for a uri of no known shader stage fails
\* before the compiler is invoked and leaves the session able to handle
\* further messages.
C11_UnknownExtensionFailsOnlyRequest ==
    (DocumentMessage /\ find_language(DocumentUri).thrown)
    => /\ "compile" \notin {calls[i] : i \in 1..Len(calls)}
       /\ alive

\* A publishDiagnostics notification has answered the message handled.
PublishedPass ==
    /\ Handled
    /\ response.kind = "frame"
    /\ Get(response.payload, "method") = JStr("textDocument/publishDiagnostics")

\* The diagnostics the notification carries, and the k-th of them.
PublishedList == Path(response.payload, <<"params", "diagnostics">>).v

PublishedAt(k) == PublishedList.c[k].v

\* The matches of the outer pattern in the lines from the i-th on, in order.
RECURSIVE MatchesFrom(_, _)
MatchesFrom(lines, i) ==
    IF i > Len(lines) THEN <<>>
    ELSE IF OuterMatch(lines[i]).size = 4
         THEN <<OuterMatch(lines[i])>> \o MatchesFrom(lines, i + 1)
    ELSE MatchesFrom(lines, i + 1)

\* The matches in the log the compiler answered with, and the lines of the
\* source the pass was called with.
LogMatches == MatchesFrom(split_string(debug_log, "\n"), 1)

SourceLines == split_string(diagnosed, "\n")

\* Of the k-th matched log line: the zero-based line it names, whether the
\* source has that line, the line, the trimmed message, and the quoted
\* identifier the message starts with, if it has the form 'ident' : detail.
LineIndex(k) == StrToNat(LogMatches[k].g2) - 1

InSource(k) == LineIndex(k) >= 0 /\ LineIndex(k) < Len(SourceLines)

SourceLine(k) == SourceLines[LineIndex(k) + 1]

Trimmed(k) == trim(LogMatches[k].g3, " ")

Quotes(k) == InnerMatch(Trimmed(k)).size = 3

Identifier(k) == InnerMatch(Trimmed(k)).g1

\* The offsets of the occurrences of the identifier in the source line.
Occurrences(k) ==
    {o \in 0..Len(SourceLine(k)) : StartsAt(SourceLine(k), Identifier(k), o + 1)}

\* The members of the range of a diagnostic.
StartLine(d) == Path(d, <<"range", "start", "line">>).v

StartCharacter(d) == Path(d, <<"range", "start", "character">>).v

EndLine(d) == Path(d, <<"range", "end", "line">>).v

EndCharacter(d) == Path(d, <<"range", "end", "character">>).v

\* C12: the diagnostic of a log line SEV: 0:LINE: 'IDENT' : DETAIL whose
\* IDENT occurs in source line LINE-1 has start and end line LINE-1, start
\* character the offset of the first occurrence of IDENT in that line, end
\* character that offset + length(IDENT) - 1, source "glslang" and the
\* trimmed message.
C12_IdentifierSpan ==
    PublishedPass =>
        \A k \in 1..Len(LogMatches) :
            (InSource(k) /\ Quotes(k) /\ Occurrences(k) # {})
            => /\ k <= Len(PublishedList.c)
               /\ StartLine(PublishedAt(k)) = JNum(LineIndex(k))
               /\ EndLine(PublishedAt(k)) = JNum(LineIndex(k))
               /\ \E o \in Occurrences(k) :
                     /\ \A p \in Occurrences(k) : o <= p
                     /\ StartCharacter(PublishedAt(k)) = JNum(o)
                     /\ EndCharacter(PublishedAt(k)) = JNum(o + Len(Identifier(k)) - 1)
               /\ Get(PublishedAt(k), "source") = JStr("glslang")
               /\ Get(PublishedAt(k), "message") = JStr(Trimmed(k))

\* A diagnostic of an identifier of two bytes, found past the start of the
\* second source line, has been published.
C12_Witness ==
    /\ PublishedPass
    /\ \E k \in 1..Len(LogMatches) :
          /\ InSource(k) /\ Quotes(k) /\ Occurrences(k) # {}
          /\ LineIndex(k) = 1
          /\ Len(Identifier(k)) = 2
          /\ StartCharacter(PublishedAt(k)) = JNum(4)
          /\ EndCharacter(PublishedAt(k)) = JNum(5)

\* C13: the diagnostic of a matched log line whose message has not the form
\* 'ident' : detail spans the whole source line LINE-1: start character 0,
\* end character the length of that line.
C13_FallbackSpan ==
    PublishedPass =>
        \A k \in 1..Len(LogMatches) :
            (InSource(k) /\ ~Quotes(k))
            => /\ k <= Len(PublishedList.c)
               /\ StartLine(PublishedAt(k)) = JNum(LineIndex(k))
               /\ EndLine(PublishedAt(k)) = JNum(LineIndex(k))
               /\ StartCharacter(PublishedAt(k)) = JNum(0)
               /\ EndCharacter(PublishedAt(k)) = JNum(Len(SourceLine(k)))

\* A diagnostic of a message without a quoted identifier has been published
\* for a source line that is not empty.
C13_Witness ==
    /\ PublishedPass
    /\ \E k \in 1..Len(LogMatches) :
          /\ InSource(k) /\ ~Quotes(k)
          /\ Len(SourceLine(k)) > 0
          /\ EndCharacter(PublishedAt(k)) = JNum(Len(SourceLine(k)))

\* C14: a publishDiagnostics notification carries the uri of the document
\* and a list; the list is the empty array when the log of the compiler is
\* empty or has no line that matches the outer pattern.
C14_AlwaysAList ==
    PublishedPass
    => /\ Path(Decoded(response.frame).v, <<"params", "uri">>).v = JStr(DocumentUri)
       /\ Path(Decoded(response.frame).v, <<"params", "diagnostics">>).v.t = "arr"
       /\ LogMatches = <<>>
            => Path(Decoded(response.frame).v, <<"params", "diagnostics">>).v = JArr(<<>>)

\* A notification has been published for a log that is not empty and has no
\* matching line.
C14_Witness ==
    /\ PublishedPass
    /\ debug_log # ""
    /\ LogMatches = <<>>
    /\ PublishedList = JArr(<<>>)

\* C15: the diagnostic of a matched log line whose message has the form
\* 'IDENT' : detail with an IDENT that does not occur in the source line
\* spans the whole line (start character 0, end character the length of
\* the line), and no published diagnostic has a negative start or end
\* character.
C15_NotFoundFallsBack ==
    PublishedPass =>
        /\ \A k \in 1..Len(LogMatches) :
              (InSource(k) /\ Quotes(k) /\ Occurrences(k) = {})
              => /\ k <= Len(PublishedList.c)
                 /\ StartCharacter(PublishedAt(k)) = JNum(0)
                 /\ EndCharacter(PublishedAt(k)) = JNum(Len(SourceLine(k)))
        /\ \A k \in 1..Len(PublishedList.c) :
              /\ StartCharacter(PublishedAt(k)).n >= 0
              /\ EndCharacter(PublishedAt(k)).n >= 0

\* The matched lines of the log all name a line number.
LinesNumbered == \A k \in 1..Len(LogMatches) : LogMatches[k].g2 # ""

\* C16: when a matched log line names a line outside the source, the pass
\* does not fail and publishes the diagnostics of the other matched lines
\* only, one for each.
C16_OutOfRangeSkipped ==
    (DocumentMessage /\ LinesNumbered /\ \E k \in 1..Len(LogMatches) : ~InSource(k))
    => /\ PublishedPass
       /\ Len(PublishedList.c) = Cardinality({k \in 1..Len(LogMatches) : InSource(k)})

\* The replacement text of a "textDocument/didChange" message: the text of
\* the first entry of its list of changes.
ChangeText ==
    Path(First(Path(received, <<"params", "contentChanges">>).v).v, <<"text">>).v

\* A "textDocument/didChange" with a text has been handled for a document
\* the workspace held.
ChangedOpenDocument ==
    /\ DocumentMessage
    /\ ReceivedMethod = JStr("textDocument/didChange")
    /\ IsString(ChangeText)
    /\ DocumentUri \in DOMAIN before.documents

\* C17: after a "textDocument/didChange" for an open uri the workspace holds
\* the replacement text for it, the diagnostic pass of the dispatch was
\* called with that text, and the list published has the diagnostics of
\* that pass only.
C17_ChangeThenDiagnose ==
    ChangedOpenDocument
    => /\ workspace.documents[DocumentUri] = ChangeText.s
       /\ "get_diagnostics" \in {calls[i] : i \in 1..Len(calls)}
       /\ diagnosed = ChangeText.s
       /\ PublishedPass => Len(PublishedList.c) = Len(LogMatches)

\* A change to another text has been answered with diagnostics.
C17_Witness ==
    /\ ChangedOpenDocument
    /\ before.documents[DocumentUri] # ChangeText.s
    /\ PublishedPass
    /\ Len(PublishedList.c) > 0

\* The severity number of the k-th matched log line: 1 for "ERROR", 2 for
\* "WARNING", the marker -1 for any other token.
SeverityOf(k) ==
    IF LogMatches[k].g1 = "ERROR" THEN 1
    ELSE IF LogMatches[k].g1 = "WARNING" THEN 2
    ELSE -1

\* C18: the list get_diagnostics returns has one diagnostic for each log
\* line that matches SEVERITY: 0:LINE: MESSAGE, in the order of the log, and
\* none for the other lines; a severity other than "ERROR" and "WARNING"
\* gives a diagnostic with the marker -1.
C18_OnePerMatchedLine ==
    PublishedPass
    => /\ Len(PublishedList.c) = Len(LogMatches)
       /\ \A k \in 1..Len(LogMatches) :
             /\ Get(PublishedAt(k), "message") = JStr(Trimmed(k))
             /\ Get(PublishedAt(k), "severity") = JNum(SeverityOf(k))
             /\ StartLine(PublishedAt(k)) = JNum(LineIndex(k))

\* A list of a warning followed by a diagnostic of unknown severity has
\* been published for a log of two matching lines.
C18_Witness ==
    /\ PublishedPass
    /\ Len(LogMatches) = 2
    /\ Len(PublishedList.c) = 2
    /\ Get(PublishedAt(1), "severity") = JNum(2)
    /\ Get(PublishedAt(2), "severity") = JNum(-1)

\* ------------------------------------------------------------------------
\* Properties of what handle_message returns
\* ------------------------------------------------------------------------

\* The codes of the error frames of handle_message.
ErrorCodes == {NotInitializedCode, MethodNotFoundCode, ParseErrorCode}

\* The answer is a frame with an error member.
AnsweredAnyError ==
    response.kind = "frame" /\ Count(response.payload, "error") = 1

\* C19: a call of handle_message that returns an error frame (of code
\* -32002, -32601 or -32700) leaves the workspace as it was: the flag and
\* the documents are unchanged and no operation of the workspace or of the
\* diagnostics has been called.
C19_ErrorLeavesWorkspace ==
    (Handled /\ AnsweredAnyError)
    => /\ \E code \in ErrorCodes : AnsweredError(code)
       /\ workspace = before
       /\ calls = <<>>

\* An unknown method has been refused in a workspace that is initialized
\* and holds a document.
C19_Witness ==
    /\ Handled /\ AnsweredError(MethodNotFoundCode)
    /\ is_initialized(before) /\ DOMAIN before.documents # {}
    /\ workspace = before

====
